---- MODULE Spec2Model ----
(***************************************************************************)
(* A model of the self-updater of vscreen/updater (updater.go, info.go):   *)
(* the poll loop of StartUpdater, one cycle of update() = fetch() then     *)
(* unpack(), the files the cycle leaves behind, and RestartAndUpdate with   *)
(* the files at the executable path and the processes it starts and ends.  *)
(*                                                                         *)
(* File contents and archive entry bodies are sequences of tokens          *)
(* (strings): a binary is a sequence of byte tokens, the text of info.json *)
(* is a sequence of JSON tokens that Decode parses.                        *)
(***************************************************************************)
EXTENDS Integers, Sequences, FiniteSets, TLC

(* ------------------------------ bounds --------------------------------- *)
\* entries in one archive
MaxEntries == 3
\* goroutines started by StartUpdater on the one Updater
MaxLoops == 2
\* poll cycles started, over all loops
MaxCycles == 3
\* calls of RestartAndUpdate
MaxCalls == 2

(* ------------------------------ time.Ticker ---------------------------- *)
\* the capacity of ticker.C, the channel of time.NewTicker
TickerCap == 1

(* ------------------------------ info.go -------------------------------- *)
\* type Info struct { Name, Version, Description string }
Info(n, v, d) == [Name |-> n, Version |-> v, Description |-> d]

\* the zero value of Info: `var info Info`, `Info{}`
EmptyInfo == Info("", "", "")

\* the metadata upstream publishes in the modelled runs
Infos == {Info("svc", "1.2.3", "x"), Info("svc", "1.2.4", "")}

(* --------------------------- encoding/json ----------------------------- *)
\* JSON tokens that are numbers, not strings
NumberTokens == {"7"}

\* the text of a JSON object with the three string fields of Info
Encode(i) ==
    <<"{", "name", i.Name, "version", i.Version, "description", i.Description, "}">>

\* the same object with its fields in another order and a key Info lacks
Reordered(i) ==
    <<"{", "extra", "7", "version", i.Version, "name", i.Name,
      "description", i.Description, "}">>

\* the text is one JSON value: null, or an object of key/value pairs
ValidJSON(text) ==
    \/ text = <<"null">>
    \/ /\ Len(text) >= 2
       /\ text[1] = "{"
       /\ text[Len(text)] = "}"
       /\ (Len(text) - 2) % 2 = 0
       /\ \A k \in 2..(Len(text) - 1) : text[k] \notin {"{", "}", "null"}

\* a field of the struct receives a JSON number: UnmarshalTypeError
TypeError(text) ==
    \E k \in 1..((Len(text) - 2) \div 2) :
        /\ text[2 * k] \in {"name", "version", "description"}
        /\ text[2 * k + 1] \in NumberTokens

\* the value the struct field tagged `key` ends with: the last pair of the
\* object with that key, or the field's previous value when there is none
Field(text, key, prev) ==
    LET ks == {k \in 1..((Len(text) - 2) \div 2) :
                   text[2 * k] = key /\ text[2 * k + 1] \notin NumberTokens}
    IN  IF ks = {} THEN prev
        ELSE text[2 * (CHOOSE k \in ks : \A j \in ks : j <= k) + 1]

\* json.NewDecoder(infoFile).Decode(&info), info being the zero Info
Decode(text) ==
    IF ~ValidJSON(text) THEN [err |-> "decode", info |-> EmptyInfo]
    ELSE IF text = <<"null">> THEN [err |-> "nil", info |-> EmptyInfo]
    ELSE [err  |-> IF TypeError(text) THEN "decode" ELSE "nil",
          info |-> Info(Field(text, "name", ""), Field(text, "version", ""),
                        Field(text, "description", ""))]

(* ----------------------------- the archive ----------------------------- *)
\* case "info.json": the name of the metadata entry
InfoName == "info.json"

\* u.execPath, set by NewUpdater from os.Executable()
execPath == "/opt/svc/svc"

\* the staged binary and the name of an entry that is neither of the two
StagedPath == "/opt/svc/svc.new"
OtherName == "README"

\* bodies of info.json entries: well-formed, reordered with an unknown key,
\* a field missing, a number where a string is wanted, cut short, null
InfoBodies ==
    {Encode(i) : i \in Infos}
    \cup {Reordered(Info("svc", "1.2.3", "x")),
          <<"{", "name", "svc", "}">>,
          <<"{", "name", "svc", "version", "7", "description", "x", "}">>,
          <<"{", "name", "svc">>,
          <<"null">>}

\* bodies of binary entries: the bytes of a build
BinBodies == {<<"b1">>, <<"b2", "b1">>}

\* an entry of the archive: zip.File, with its name and its content
Entries ==
    [name : {InfoName}, body : InfoBodies]
    \cup [name : {execPath}, body : BinBodies]
    \cup [name : {OtherName}, body : {<<"r">>}]

\* r.File of every archive of at most MaxEntries entries
Archives == UNION {[1..n -> Entries] : n \in 0..MaxEntries}

\* a file on disk: absent, or present with its content
NoFile == [exists |-> FALSE, data |-> <<>>]
File(data) == [exists |-> TRUE, data |-> data]

\* what can go wrong in one call of unpack: nothing, zip.OpenReader fails,
\* f.Open fails at entry `at`, os.Create fails, io.Copy fails after `at` bytes
Fault(kind, at) == [kind |-> kind, at |-> at]
NoFault == Fault("none", 0)

\* the index of the entry a handle variable ends with after the scan loop:
\* the last entry of that name among the entries scanned, 0 for nil
Handle(a, name, scanned) ==
    LET ks == {k \in scanned : a[k].name = name}
    IN  IF ks = {} THEN 0 ELSE CHOOSE k \in ks : \A j \in ks : j <= k

\* the faults that can happen while unpack reads archive a
Faults(a) ==
    LET b == Handle(a, execPath, DOMAIN a)
    IN  {NoFault, Fault("zip", 0), Fault("create", 0)}
        \cup {Fault("open", k) : k \in DOMAIN a}
        \cup {Fault("copy", k) : k \in 0..(IF b = 0 THEN 0 ELSE Len(a[b].body))}

\* the first n tokens of a sequence
Prefix(s, n) == SubSeq(s, 1, n)

(* --------------------------- Updater.unpack ---------------------------- *)
\* what a call of unpack returns and leaves behind: the error ("nil" for
\* none), the Info, the file at <execPath>.new, the entry handles opened and
\* the ones closed at return, and whether the archive handle r was opened
\* and closed
Ret(err, info, new, opened, closed, rOpened) ==
    [err |-> err, info |-> info, new |-> new, opened |-> opened,
     closed |-> closed, rOpened |-> rOpened, rClosed |-> rOpened]

\* os.Create(u.execPath + ".new") then io.Copy(newFile, binaryFile), the
\* copy stopping after n bytes: the file is truncated, then written
\* (faulty variant: the file is opened without O_TRUNC)
CreateAndCopyMutNoTrunc(old, body, n) ==
    IF old.exists /\ Len(old.data) > n
    THEN File(Prefix(body, n) \o SubSeq(old.data, n + 1, Len(old.data)))
    ELSE File(Prefix(body, n))

CreateAndCopy(old, body, n) == File(Prefix(body, n))

\* `_, err = io.Copy(newFile, binaryFile); return info, err`
\* (faulty variant: the error of io.Copy is dropped)
CopyErrMutDropped(fault) == "nil"

CopyErr(fault) == IF fault.kind = "copy" THEN "copy" ELSE "nil"

\* the file at <execPath>.new after a return that comes before os.Create
\* has made a file
\* (faulty variant: os.Create is called before the checks)
EarlyReturnMutCreated(old) == File(<<>>)

EarlyReturn(old) == old

\* `if err != nil { return info, err }` after Decode
\* (faulty variant: the error of Decode is not looked at)
DecodeFailedMutIgnored(dec) == FALSE

DecodeFailed(dec) == dec.err # "nil"

unpack(a, fault, old) ==
    IF fault.kind = "zip" THEN Ret("zip", EmptyInfo, EarlyReturn(old), {}, {}, FALSE)
    ELSE
    LET failAt     == IF fault.kind = "open" THEN fault.at ELSE 0
        scanned    == IF failAt > 0 THEN 1..(failAt - 1) ELSE DOMAIN a
        infoFile   == Handle(a, InfoName, scanned)
        binaryFile == Handle(a, execPath, scanned)
        deferred   == {infoFile, binaryFile}
        dec        == Decode(a[infoFile].body)
    IN  IF failAt > 0
        THEN Ret("open", EmptyInfo, EarlyReturn(old), scanned, {}, TRUE)
        ELSE IF infoFile = 0 \/ binaryFile = 0
        THEN Ret("missing", EmptyInfo, EarlyReturn(old), scanned, {}, TRUE)
        ELSE IF DecodeFailed(dec)
        THEN Ret("decode", dec.info, EarlyReturn(old), scanned, deferred, TRUE)
        ELSE IF fault.kind = "create"
        THEN Ret("create", dec.info, EarlyReturn(old), scanned, deferred, TRUE)
        ELSE Ret(CopyErr(fault), dec.info,
                 CreateAndCopy(old, a[binaryFile].body,
                               IF fault.kind = "copy" THEN fault.at
                               ELSE Len(a[binaryFile].body)),
                 scanned, deferred, TRUE)

(* ------------------------------ the state ------------------------------ *)
Loops  == 1..MaxLoops
Cycles == 1..MaxCycles

\* the archives upstream serves to the poll loops: complete ones, one with a
\* further entry, one per missing entry, one with info.json cut short, an
\* empty one
Entry(name, body) == [name |-> name, body |-> body]
Served ==
    {<<Entry(InfoName, Encode(i)), Entry(execPath, <<"b1">>)>> : i \in Infos}
    \cup {<<Entry(OtherName, <<"r">>), Entry(execPath, <<"b1">>),
            Entry(InfoName, Encode(Info("svc", "1.2.3", "x")))>>,
          <<Entry(execPath, <<"b1">>)>>,
          <<Entry(InfoName, Encode(Info("svc", "1.2.3", "x")))>>,
          <<Entry(InfoName, <<"{", "name", "svc">>), Entry(execPath, <<"b1">>)>>,
          <<>>}

VARIABLES
    pc,        \* per loop: where the goroutine of StartUpdater is
    cancelled, \* per loop: ctx.Done() of the context passed is closed
    reading,   \* per loop: the consumer of infoChan still receives
    tick,      \* per loop: the ticks waiting in ticker.C
    cur,       \* per loop: the cycle the loop is running, 0 for none
    pending,   \* per loop: the info the loop is sending on infoChan
    started,   \* cycles started so far, over all loops
    cycles,    \* per cycle: its loop, how far it got, the info of update()
    tmpFiles,  \* the temporary archive files on disk, named by their cycle
    new,       \* the file at <execPath>.new
    sent,      \* the values received from the channels, in order
    call,      \* the last direct call of unpack: archive, fault, file before
    ret,       \* and what it returned
    chanOpen,  \* per loop: infoChan has not been closed
    exe,       \* the file at <execPath>
    bak,       \* the file at <execPath>.old
    children,  \* the processes started by RestartAndUpdate, in order
    alive,     \* the current process runs
    calls,     \* calls of RestartAndUpdate so far
    rpc,       \* where the caller of RestartAndUpdate is
    rret       \* the last call of RestartAndUpdate and what it returned

\* the state RestartAndUpdate works on
procVars == <<exe, bak, children, alive, calls, rpc, rret>>

vars     == <<pc, cancelled, reading, tick, cur, pending, started, cycles, tmpFiles,
              new, sent, call, ret, chanOpen, exe, bak, children, alive, calls, rpc, rret>>

NoCycle == [loop |-> 0, at |-> "none", info |-> EmptyInfo]

\* NewUpdater, before any call of StartUpdater
InitLoops ==
    /\ pc = [l \in Loops |-> "none"]
    /\ cancelled = [l \in Loops |-> FALSE]
    /\ reading = [l \in Loops |-> TRUE]
    /\ tick = [l \in Loops |-> 0]
    /\ cur = [l \in Loops |-> 0]
    /\ pending = [l \in Loops |-> EmptyInfo]
    /\ started = 0
    /\ cycles = [c \in Cycles |-> NoCycle]
    /\ tmpFiles = {}
    /\ sent = <<>>
    /\ ret = Ret("none", EmptyInfo, NoFile, {}, {}, FALSE)
    /\ chanOpen = [l \in Loops |-> TRUE]

\* os.Args of the current process, and the build it runs
Args == <<"svc", "-d">>
RunningBuild == <<"b0">>

\* a call of RestartAndUpdate: the error it returned ("running" until it
\* returns, "nil" for none) and the files it found at <execPath> and
\* <execPath>.old
RRet(err, exe0, bak0) == [err |-> err, exe |-> exe0, bak |-> bak0]

\* the running process: its executable in place, no backup, no call made
InitProc ==
    /\ exe = File(RunningBuild)
    /\ bak = NoFile
    /\ children = <<>>
    /\ alive = TRUE
    /\ calls = 0
    /\ rpc = "idle"
    /\ rret = RRet("none", NoFile, NoFile)

Init ==
    /\ InitLoops
    /\ InitProc
    /\ new = NoFile
    /\ call = [a |-> <<>>, fault |-> NoFault, old |-> NoFile]

(* ------------------------- Updater.StartUpdater ------------------------ *)
\* StartUpdater(ctx): a ticker, a channel and a goroutine at its select
StartUpdater(l) ==
    /\ pc[l] = "none"
    /\ \A k \in Loops : k < l => pc[k] # "none"
    /\ pc' = [pc EXCEPT ![l] = "select"]
    /\ UNCHANGED <<cancelled, reading, tick, cur, pending, started, cycles, tmpFiles,
                   new, sent, call, ret, chanOpen, procVars>>

\* ticker.C takes another tick: the ticker sends without blocking, a tick
\* that finds the channel full is dropped
\* (faulty variant: a channel that holds one tick more)
HasRoomMutLarger(n) == n < TickerCap + 1

HasRoom(n) == n < TickerCap

\* the ticker of the loop fires: the tick is kept if ticker.C is empty
\* (the ticker is never stopped; its ticks after the loop has left are read
\* by nobody and are left out)
TickerFire(l) ==
    /\ pc[l] \notin {"none", "stopped"}
    /\ HasRoom(tick[l])
    /\ tick' = [tick EXCEPT ![l] = @ + 1]
    /\ UNCHANGED <<pc, cancelled, reading, cur, pending, started, cycles, tmpFiles,
                   new, sent, call, ret, chanOpen, procVars>>

\* the caller cancels the context of the loop
Cancel(l) ==
    /\ pc[l] # "none"
    /\ ~cancelled[l]
    /\ cancelled' = [cancelled EXCEPT ![l] = TRUE]
    /\ UNCHANGED <<pc, reading, tick, cur, pending, started, cycles, tmpFiles,
                   new, sent, call, ret, chanOpen, procVars>>

\* the consumer of the channel of the loop stops receiving; whenever it
\* does, that shows at the next send, which is where the model decides it
StopReading(l) ==
    /\ pc[l] = "send"
    /\ reading[l]
    /\ reading' = [reading EXCEPT ![l] = FALSE]
    /\ UNCHANGED <<pc, cancelled, tick, cur, pending, started, cycles, tmpFiles,
                   new, sent, call, ret, chanOpen, procVars>>

\* the loop is at its select: `break loop` has left the for loop for good
\* (faulty variant: a bare `break` leaves the select, not the loop)
AtSelectMutBreak(l) == pc[l] \in {"select", "stopped"}

AtSelect(l) == pc[l] = "select"

\* ctx.Done() is read in the select of the loop, nowhere else
\* (faulty variants: the select has no ctx.Done() case; the context also
\* aborts a cycle in flight)
SeesDoneMutNever(l) == FALSE

SeesDoneMutAnywhere(l) == pc[l] \in {"select", "fetch", "unpack"}

SeesDone(l) == pc[l] = "select"

\* case <-ticker.C: the loop takes the tick and calls u.update()
TakeTick(l) ==
    /\ AtSelect(l)
    /\ tick[l] > 0
    /\ started < MaxCycles
    /\ tick' = [tick EXCEPT ![l] = @ - 1]
    /\ started' = started + 1
    /\ cur' = [cur EXCEPT ![l] = started + 1]
    /\ cycles' = [cycles EXCEPT ![started + 1] = [loop |-> l, at |-> "fetch", info |-> EmptyInfo]]
    /\ pc' = [pc EXCEPT ![l] = "fetch"]
    /\ UNCHANGED <<cancelled, reading, pending, tmpFiles, new, sent, call, ret, chanOpen, procVars>>

\* infoChan once the goroutine has left its loop: the function literal ends
\* after the loop, with no close(infoChan)
\* (faulty variant: the goroutine closes the channel when it leaves)
AfterLoopMutClose(open) == FALSE

AfterLoop(open) == open

\* case <-ctx.Done(): break loop
TakeDone(l) ==
    /\ SeesDone(l)
    /\ cancelled[l]
    /\ pc' = [pc EXCEPT ![l] = "stopped"]
    /\ chanOpen' = [chanOpen EXCEPT ![l] = AfterLoop(@)]
    /\ UNCHANGED <<cancelled, reading, tick, cur, pending, started, cycles, tmpFiles,
                   new, sent, call, ret, procVars>>

(* ----------------------- Updater.update, fetch ------------------------- *)
\* the outcomes of fetch: http.Get fails, ioutil.TempFile fails, io.Copy
\* fails, or none of them
FetchOutcomes == {"get", "tempfile", "copy", "nil"}

\* fetch has created the temporary file when it returns with this outcome
Created(out) == out \in {"copy", "nil"}

\* the loop on the result of u.update(): `if err != nil { continue }`,
\* else `infoChan <- info`
\* (faulty variant: the error of update() is not tested)
PublishesMutAlways(err) == TRUE

Publishes(err) == err = "nil"

\* `continue`: the loop goes back to its select
\* (faulty variant: the loop is left on an error)
ContinueMutLeave == "stopped"

Continue == "select"

\* archivePath, err := u.fetch() and the test of err in update(); on an
\* error update() returns Info{} and the error to the loop, before its
\* `defer os.Remove(archivePath)` is reached
Fetch(l) ==
    /\ pc[l] = "fetch"
    /\ \E out \in FetchOutcomes :
        LET c     == cur[l]
            files == IF Created(out) THEN tmpFiles \cup {c} ELSE tmpFiles
        IN  IF out = "nil"
            THEN /\ tmpFiles' = files
                 /\ cycles' = [cycles EXCEPT ![c].at = "unpack"]
                 /\ pc' = [pc EXCEPT ![l] = "unpack"]
                 /\ UNCHANGED <<cur, pending>>
            ELSE /\ tmpFiles' = files
                 /\ cycles' = [cycles EXCEPT ![c].at = "fetchErr"]
                 /\ IF Publishes(out)
                    THEN /\ pc' = [pc EXCEPT ![l] = "send"]
                         /\ pending' = [pending EXCEPT ![l] = EmptyInfo]
                         /\ cur' = cur
                    ELSE /\ pc' = [pc EXCEPT ![l] = Continue]
                         /\ pending' = pending
                         /\ cur' = [cur EXCEPT ![l] = 0]
    /\ UNCHANGED <<cancelled, reading, tick, started, new, sent, call, ret, chanOpen, procVars>>

\* `return u.unpack(archivePath)` with the deferred os.Remove(archivePath),
\* then the loop on the result
Unpack(l) ==
    /\ pc[l] = "unpack"
    /\ \E a \in Served : \E f \in Faults(a) :
        LET c == cur[l]
            r == unpack(a, f, new)
        IN  /\ new' = r.new
            /\ tmpFiles' = tmpFiles \ {c}
            /\ cycles' = [cycles EXCEPT ![c].at = IF r.err = "nil" THEN "ok" ELSE "unpackErr",
                                         ![c].info = IF r.err = "nil" THEN r.info ELSE EmptyInfo]
            /\ IF Publishes(r.err)
               THEN /\ pending' = [pending EXCEPT ![l] = r.info]
                    /\ pc' = [pc EXCEPT ![l] = "send"]
                    /\ cur' = cur
               ELSE /\ pending' = pending
                    /\ pc' = [pc EXCEPT ![l] = Continue]
                    /\ cur' = [cur EXCEPT ![l] = 0]
    /\ UNCHANGED <<cancelled, reading, tick, started, sent, call, ret, chanOpen, procVars>>

\* infoChan <- info: the channel has no buffer, the send completes when the
\* consumer receives
Receive(l) ==
    /\ pc[l] = "send"
    /\ reading[l]
    /\ sent' = Append(sent, [loop |-> l, cycle |-> cur[l], info |-> pending[l]])
    /\ pending' = [pending EXCEPT ![l] = EmptyInfo]
    /\ cur' = [cur EXCEPT ![l] = 0]
    /\ pc' = [pc EXCEPT ![l] = "select"]
    /\ UNCHANGED <<cancelled, reading, tick, started, cycles, tmpFiles, new, call, ret,
                   chanOpen, procVars>>

\* a step of loop l, of its ticker, of the caller or of the consumer
Step(l) ==
    \/ StartUpdater(l)
    \/ TickerFire(l)
    \/ Cancel(l)
    \/ StopReading(l)
    \/ TakeTick(l)
    \/ TakeDone(l)
    \/ Fetch(l)
    \/ Unpack(l)
    \/ Receive(l)

\* any calls of StartUpdater on the one Updater, each with its own context
Next == \E l \in Loops : Step(l)

Spec == Init /\ [][Next]_vars

\* one call of StartUpdater: the poll loop by itself
NextOneLoop == Step(1)

SpecOneLoop == Init /\ [][NextOneLoop]_vars

(* --------------------------- RestartAndUpdate -------------------------- *)
\* os.Rename(u.execPath, u.execPath + ".old") fails when nothing is at
\* u.execPath, and may fail otherwise (permissions, read-only directory)
RenameErrs(f) == IF f.exists THEN {"nil", "rename"} ELSE {"rename"}

\* os.StartProcess(u.execPath, ...) fails when nothing is at u.execPath, and
\* may fail otherwise (not executable, no more processes)
StartErrs(f) == IF f.exists THEN {"nil", "spawn"} ELSE {"spawn"}

\* os.FindProcess(os.Getpid()) and old.Kill()
KillErrs == {"nil", "find", "kill"}

\* <execPath>.old when os.Rename has failed: nothing touches it before the
\* rename
\* (faulty variant: the old backup is removed before the rename)
BackupOnRenameErrorMutRemoved(backup) == NoFile

BackupOnRenameError(backup) == backup

\* the file at <execPath> once it has been renamed away
\* (faulty variant: the staged file is moved to the path)
VacatedMutPromoted(staged) == staged

Vacated(staged) == NoFile

\* `if err != nil { return err }` after os.StartProcess
\* (faulty variant: the error is not looked at)
SpawnFailedMutIgnored(err) == FALSE

SpawnFailed(err) == err # "nil"

\* the files at <execPath> and <execPath>.old when the spawn error is
\* returned
\* (faulty variant: the backup is renamed back)
OnSpawnErrorMutRestored(f, backup) == [exe |-> backup, bak |-> NoFile]

OnSpawnError(f, backup) == [exe |-> f, bak |-> backup]

\* the process os.StartProcess starts: the file at u.execPath, run with
\* os.Args
Child(f) == [image |-> f.data, args |-> Args]

\* err := os.Rename(u.execPath, u.execPath+".old"); on an error the call
\* returns it
Rename ==
    /\ alive
    /\ rpc = "idle"
    /\ calls < MaxCalls
    /\ calls' = calls + 1
    /\ \E err \in RenameErrs(exe) :
        IF err # "nil"
        THEN /\ rret' = RRet("rename", exe, bak)
             /\ bak' = BackupOnRenameError(bak)
             /\ UNCHANGED <<exe, rpc>>
        ELSE /\ rret' = RRet("running", exe, bak)
             /\ bak' = exe
             /\ exe' = Vacated(new)
             /\ rpc' = "spawn"
    /\ UNCHANGED <<pc, cancelled, reading, tick, cur, pending, started, cycles, tmpFiles,
                   new, sent, call, ret, chanOpen, children, alive>>

\* _, err = os.StartProcess(u.execPath, os.Args, ...); on an error the call
\* returns it
StartProcess ==
    /\ alive
    /\ rpc = "spawn"
    /\ \E err \in StartErrs(exe) :
        IF SpawnFailed(err)
        THEN LET f == OnSpawnError(exe, bak)
             IN  /\ rret' = [rret EXCEPT !.err = "spawn"]
                 /\ exe' = f.exe
                 /\ bak' = f.bak
                 /\ rpc' = "idle"
                 /\ UNCHANGED children
        ELSE /\ children' = IF err = "nil" THEN Append(children, Child(exe))
                                            ELSE children
             /\ rpc' = "kill"
             /\ UNCHANGED <<exe, bak, rret>>
    /\ UNCHANGED <<pc, cancelled, reading, tick, cur, pending, started, cycles, tmpFiles,
                   new, sent, call, ret, chanOpen, alive, calls>>

\* old, err := os.FindProcess(os.Getpid()); return old.Kill(): the current
\* process ends, or the call returns the error
Kill ==
    /\ alive
    /\ rpc = "kill"
    /\ \E err \in KillErrs :
        IF err = "nil"
        THEN /\ alive' = FALSE
             /\ rpc' = "done"
             /\ rret' = [rret EXCEPT !.err = "nil"]
        ELSE /\ rpc' = "idle"
             /\ rret' = [rret EXCEPT !.err = err]
             /\ UNCHANGED alive
    /\ UNCHANGED <<pc, cancelled, reading, tick, cur, pending, started, cycles, tmpFiles,
                   new, sent, call, ret, chanOpen, exe, bak, children, calls>>

\* the builds another process may put at <execPath>
Puts == {<<"p1">>}

\* another process puts a build at <execPath> while nothing is there: the
\* Updater shares the directory of the executable with whoever installs it
PutExecutable ==
    /\ ~exe.exists
    /\ \E b \in Puts : exe' = File(b)
    /\ UNCHANGED <<pc, cancelled, reading, tick, cur, pending, started, cycles, tmpFiles,
                   new, sent, call, ret, chanOpen, bak, children, alive, calls, rpc, rret>>

\* one call of StartUpdater and calls of RestartAndUpdate, in a directory
\* another process writes to; nothing of the process runs once it is killed
NextRestart ==
    \/ alive /\ Step(1)
    \/ Rename
    \/ StartProcess
    \/ Kill
    \/ PutExecutable

SpecRestart == Init /\ [][NextRestart]_vars

(* ------------------------ unpack, called directly ---------------------- *)
\* the files a call of unpack can find at <execPath>.new: none, or what an
\* earlier call has left there, a build or the part of it that was copied
StagedFiles == {NoFile} \cup UNION {{File(Prefix(b, n)) : n \in 0..Len(b)} : b \in BinBodies}

\* a call of unpack about to be made: any archive, any fault, any staged file
InitUnpack ==
    /\ InitLoops
    /\ InitProc
    /\ \E a \in Archives : \E f \in Faults(a) : \E old \in StagedFiles :
        /\ call = [a |-> a, fault |-> f, old |-> old]
        /\ new = old

\* the call is made
CallUnpack ==
    /\ ret.err = "none"
    /\ ret' = unpack(call.a, call.fault, new)
    /\ new' = unpack(call.a, call.fault, new).new
    /\ UNCHANGED <<call, pc, cancelled, reading, tick, cur, pending, started, cycles,
                   tmpFiles, sent, chanOpen, procVars>>

SpecUnpack == InitUnpack /\ [][CallUnpack]_vars

(* ----------------------------- fairness -------------------------------- *)
\* The goroutine runs: a fetch and an unpack that have begun return, a send
\* completes while the consumer receives, and a select with ctx.Done() ready
\* infinitely often takes that case (select picks among its ready cases at
\* random). Nothing obliges the caller to cancel, the consumer to go on
\* reading, or a tick to be taken.
Fairness(l) ==
    /\ WF_vars(Fetch(l))
    /\ WF_vars(Unpack(l))
    /\ WF_vars(Receive(l))
    /\ SF_vars(TakeDone(l))

FairOneLoop == Init /\ [][NextOneLoop]_vars /\ Fairness(1)

\* the same with a ticker that keeps firing: ticker.C is filled whenever it
\* is empty, and a select whose only ready case is the tick takes it
FairTicksOneLoop ==
    /\ Init /\ [][NextOneLoop]_vars
    /\ Fairness(1)
    /\ WF_vars(TickerFire(1))
    /\ WF_vars(TakeTick(1))

(* ------------------------------ the claims ----------------------------- *)
\* a cycle whose call of update() has returned
Ended(c) == cycles[c].at \in {"fetchErr", "unpackErr", "ok"}

\* the positions of sent that hold a value of cycle c
SentOf(c) == {i \in DOMAIN sent : sent[i].cycle = c}

\* C1: once a cycle's update() has returned, with success or with an error of
\* any step of fetch or of unpack, the temporary archive file of that cycle
\* is no longer on disk.
C1_NoArchiveAfterCycle == \A c \in Cycles : Ended(c) => c \notin tmpFiles

\* C2: a tick taken leads to at most one value sent, the values of a loop are
\* sent in the order of its cycles, and a loop that has taken the
\* cancellation case stays stopped, starts no cycle and sends nothing.
C2_OnePerTickInOrder ==
    /\ [](\A c \in Cycles : Cardinality(SentOf(c)) <= 1)
    /\ [](\A i, j \in DOMAIN sent :
            (i < j /\ sent[i].loop = sent[j].loop) => sent[i].cycle < sent[j].cycle)
    /\ [][\A l \in Loops : pc[l] = "stopped" =>
            /\ pc'[l] = "stopped"
            /\ cur'[l] = 0
            /\ \A c \in Cycles : cycles[c].loop # l => cycles'[c].loop # l
            /\ \A i \in DOMAIN sent' : sent'[i].loop = l => i \in DOMAIN sent]_vars

\* C2 witness: a loop has stopped after two of its cycles were sent
C2_Witness ==
    \E l \in Loops :
        /\ pc[l] = "stopped"
        /\ Cardinality({i \in DOMAIN sent : sent[i].loop = l}) >= 2

\* C3 as stated: once the context of a loop is cancelled the loop eventually
\* stops, whatever the consumer does.
C3_CancelStopsAlways == \A l \in Loops : cancelled[l] ~> (pc[l] = "stopped")

\* C3 as amended: once the context of a loop is cancelled the loop eventually
\* stops, or it is blocked for good in its send to a consumer that has
\* stopped reading.
C3_CancelStopsUnlessBlocked ==
    \A l \in Loops :
        cancelled[l] ~> (pc[l] = "stopped" \/ [](pc[l] = "send" /\ ~reading[l]))

\* C3 witness: a cancelled loop has stopped after a value of it was received
C3_Witness ==
    \E l \in Loops :
        /\ cancelled[l]
        /\ pc[l] = "stopped"
        /\ \E i \in DOMAIN sent : sent[i].loop = l

\* C4: a cycle goes from fetch to unpack to its result whatever happens to
\* the context, and a loop stops only from its select, with no cycle of its
\* own in flight.
C4_CycleRunsToResult ==
    /\ [][\A c \in Cycles :
            /\ cycles[c].at = "fetch" => cycles'[c].at \in {"fetch", "unpack", "fetchErr"}
            /\ cycles[c].at = "unpack" => cycles'[c].at \in {"unpack", "unpackErr", "ok"}]_vars
    /\ [][\A l \in Loops : (pc[l] # "stopped" /\ pc'[l] = "stopped") =>
            (pc[l] = "select" /\ cur[l] = 0)]_vars
    /\ [](\A l \in Loops : pc[l] = "stopped" =>
            \A c \in Cycles : cycles[c].loop = l => Ended(c))

\* C4 witness: the context of a loop is cancelled while a cycle of it is in
\* flight: the cycle has run its fetch and goes on with its unpack
C4_Witness ==
    \E l \in Loops : \E c \in Cycles :
        /\ cancelled[l]
        /\ cycles[c].loop = l
        /\ pc[l] = "unpack"
        /\ cur[l] = c

\* C5: at most one cycle is in flight and at most one temporary archive file
\* exists, for any calls of StartUpdater.
C5_NoOverlap ==
    /\ Cardinality({l \in Loops : pc[l] \in {"fetch", "unpack"}}) <= 1
    /\ Cardinality(tmpFiles) <= 1

\* C6: every value received is the info of a cycle whose fetch and unpack
\* both returned no error, sent by the loop of that cycle; a cycle that
\* failed has sent nothing, and its loop is back at its select when the
\* failure is returned.
C6_OnlySuccessPublished ==
    /\ [](\A i \in DOMAIN sent :
            /\ cycles[sent[i].cycle].at = "ok"
            /\ cycles[sent[i].cycle].loop = sent[i].loop
            /\ cycles[sent[i].cycle].info = sent[i].info)
    /\ [](\A c \in Cycles : cycles[c].at \in {"fetchErr", "unpackErr"} => SentOf(c) = {})
    /\ [](\A l \in Loops : pc[l] = "send" => cycles[cur[l]].at = "ok")
    /\ [][\A c \in Cycles :
            (~Ended(c) /\ cycles'[c].at \in {"fetchErr", "unpackErr"}) =>
                pc'[cycles[c].loop] = "select"]_vars

\* C6 witness: a value was received and another cycle has failed
C6_Witness ==
    /\ sent # <<>>
    /\ \E c \in Cycles : cycles[c].at = "unpackErr"

\* the direct call of unpack has returned
Returned == ret.err # "none"

\* the entries of archive a with the given name
Named(a, name) == {k \in DOMAIN a : a[k].name = name}

\* archive a lacks the metadata entry or the binary entry
Lacks(a) == Named(a, InfoName) = {} \/ Named(a, execPath) = {}

\* a staged file one could run: a complete build
Usable(f) == f.exists /\ f.data \in BinBodies

\* C7: unpack returns no error only if, in that call, an info.json entry was
\* found and decoded into the Info it returns and a binary entry was found
\* and copied completely to <execPath>.new; with one of the entries lacking,
\* or with a copy that fails, it returns an error.
C7_SuccessNeedsBoth ==
    /\ ret.err = "nil" =>
        /\ \E i \in Named(call.a, InfoName) :
            /\ ValidJSON(call.a[i].body)
            /\ ~TypeError(call.a[i].body)
            /\ ret.info = Decode(call.a[i].body).info
        /\ \E b \in Named(call.a, execPath) : new = File(call.a[b].body)
    /\ (Returned /\ Lacks(call.a)) => ret.err # "nil"
    /\ (Returned /\ call.fault.kind = "copy") => ret.err # "nil"

\* C7 witness: unpack has returned no error for an archive of three entries,
\* replacing a staged file
C7_Witness == ret.err = "nil" /\ Len(call.a) = 3 /\ call.old.exists

\* C8 as stated: after unpack of an archive that lacks one of the two
\* entries, an error is returned and no usable file is at <execPath>.new,
\* whatever was there before.
C8_NoStagedFileAfterMissing ==
    (Returned /\ Lacks(call.a)) => (ret.err # "nil" /\ ~Usable(new))

\* C8 as amended: after unpack of an archive that lacks one of the two
\* entries, an error is returned and the file at <execPath>.new is as it was
\* before the call: none is created, one left by an earlier cycle stays.
C8_MissingLeavesStagedAsBefore ==
    (Returned /\ Lacks(call.a)) => (ret.err # "nil" /\ new = call.old)

\* C8 witness: the missing-entry error was returned with a build staged
\* before the call
C8_Witness == ret.err = "missing" /\ Usable(call.old)

\* C9: when unpack returns, the archive handle and every entry handle opened
\* in the call are closed.
C9_AllHandlesReleased ==
    Returned => (ret.opened \subseteq ret.closed /\ (ret.rOpened => ret.rClosed))

\* a well-formed archive for info i and build b: one info.json entry holding
\* the JSON object of i, one binary entry holding b, other entries besides
WellFormed(a, i, b) ==
    /\ \E k \in DOMAIN a :
        Named(a, InfoName) = {k} /\ a[k].body \in {Encode(i), Reordered(i)}
    /\ \E k \in DOMAIN a : Named(a, execPath) = {k} /\ a[k].body = b

\* C10: for a well-formed archive, and when no operation of the call fails,
\* unpack returns no error and the Info of the JSON entry, and the file at
\* <execPath>.new holds exactly the bytes of the binary entry, whatever it
\* held before.
C10_WellFormedUnpacked ==
    \A i \in Infos : \A b \in BinBodies :
        (Returned /\ WellFormed(call.a, i, b) /\ call.fault = NoFault) =>
            /\ ret.err = "nil"
            /\ ret.info = i
            /\ new.exists
            /\ new.data = b
            /\ Len(new.data) = Len(b)

\* C10 witness: a well-formed archive was unpacked over a longer staged file
C10_Witness ==
    /\ ret.err = "nil"
    /\ \E i \in Infos : \E b \in BinBodies :
        WellFormed(call.a, i, b) /\ call.old.exists /\ Len(call.old.data) > Len(b)

\* the scan loop of the last call went over the whole archive: the archive
\* opened and so did every entry
ScannedAll == Returned /\ call.fault.kind \notin {"zip", "open"}

\* the body of the metadata entry of archive a that unpack decodes: with
\* several entries named info.json, the last one
MetadataBody(a) ==
    a[CHOOSE i \in Named(a, InfoName) : \A j \in Named(a, InfoName) : j <= i].body

Failed(c) == cycles[c].at \in {"fetchErr", "unpackErr"}

\* C17: a send is a rendezvous. A loop at its send leaves it only by the
\* consumer receiving that value; until then it starts no cycle and takes no
\* tick out of ticker.C; and ticker.C never holds more than one tick, so the
\* ticks that elapse meanwhile do not add up to further cycles.
C17_PublishIsRendezvous ==
    /\ [](\A l \in Loops : tick[l] <= TickerCap)
    /\ [][\A l \in Loops : pc[l] = "send" =>
            /\ pc'[l] # "send" =>
                /\ reading[l]
                /\ sent' = Append(sent, [loop |-> l, cycle |-> cur[l],
                                         info |-> pending[l]])
                /\ pc'[l] = "select"
            /\ tick'[l] >= tick[l]
            /\ \A c \in Cycles : cycles'[c].loop = l => cycles[c].loop = l]_vars

C17_Witness ==
    \E l \in Loops :
        /\ pc[l] = "send"
        /\ tick[l] = TickerCap
        /\ ~reading[l]
        /\ started < MaxCycles

\* C18: a failed cycle is retried. With the ticker firing on and every step
\* that stays possible taken in the end, a cycle that has failed is followed
\* by the start of another cycle unless the context is cancelled (or the
\* bound on cycles is met); and a failure sends the loop back to its select:
\* a loop stops only when cancelled.
C18_FailedCycleRetried ==
    /\ \A c \in Cycles :
          (Failed(c) /\ c < MaxCycles)
              ~> (started > c \/ \E l \in Loops : cycles[c].loop = l /\ cancelled[l])
    /\ [](\A l \in Loops : pc[l] = "stopped" => cancelled[l])
    /\ [][\A c \in Cycles : (~Failed(c) /\ Failed(c)') =>
            pc'[cycles[c].loop] = "select"]_vars

C18_Witness ==
    \E c \in Cycles :
        /\ Failed(c)
        /\ cycles[c].loop = 1
        /\ ~cancelled[1]
        /\ started > c
        /\ cycles[c + 1].loop = 1

\* C19 as stated: an unpack that returns an error, whichever it is, leaves
\* <execPath>.new exactly as it was before the call.
C19_ErrorLeavesStagedAsBefore ==
    (Returned /\ ret.err # "nil") => new = call.old

\* a step in which RestartAndUpdate returns the error of os.Rename
RenameFails == calls' # calls /\ rret'.err = "rename"

\* C12: a call of RestartAndUpdate whose rename fails returns that error and
\* changes nothing: the files at <execPath>, <execPath>.old and
\* <execPath>.new and the temporary files are as before, no process is
\* started and the current process runs on.
C12_RenameErrorChangesNothing ==
    [][RenameFails =>
        /\ rret'.exe = exe
        /\ rpc' = "idle"
        /\ UNCHANGED <<exe, bak, new, tmpFiles, children, alive>>]_vars

C12_Witness == rret.err = "rename" /\ bak.exists /\ new.exists

\* C13 as stated: once RestartAndUpdate has succeeded, nothing is at
\* <execPath>, the executable the call found there is at <execPath>.old, and
\* a process started by the call runs with the arguments of the current one.
C13_SuccessLeavesPathVacant ==
    rret.err = "nil" =>
        /\ ~exe.exists
        /\ bak = rret.exe
        /\ children # <<>>
        /\ children[Len(children)].args = Args

\* C14: the steps of RestartAndUpdate come in the order rename, spawn,
\* terminate: a process is started only by the spawn step, which is reached
\* only through a rename that succeeded, and the current process ends only
\* in the terminate step, which is reached only through a spawn that
\* succeeded.
C14_RenameSpawnTerminate ==
    [][/\ children' # children => rpc = "spawn"
       /\ (rpc # "spawn" /\ rpc' = "spawn") =>
            (rpc = "idle" /\ exe.exists /\ bak' = exe /\ children' = children)
       /\ (alive /\ ~alive') => rpc = "kill"
       /\ (rpc # "kill" /\ rpc' = "kill") =>
            (rpc = "spawn" /\ children' = Append(children, Child(exe)) /\ alive')]_vars

C14_Witness == ~alive /\ rret.err = "nil" /\ children # <<>> /\ bak = rret.exe

\* a step in which RestartAndUpdate returns the error of os.StartProcess
SpawnFails == rpc = "spawn" /\ rpc' = "idle"

\* C15: when the rename succeeds and the spawn fails, RestartAndUpdate
\* returns the spawn error; the executable it renamed is at <execPath>.old,
\* the path it vacated is left as the spawn found it (nothing there, unless
\* another process has put a file), the current process runs on, no process
\* was started and nothing is renamed back.
C15_SpawnErrorLeavesBackup ==
    [][/\ (rpc = "idle" /\ rpc' = "spawn") => (~exe'.exists /\ bak' = exe)
       /\ SpawnFails =>
            /\ rret'.err = "spawn"
            /\ bak.exists
            /\ bak = rret.exe
            /\ UNCHANGED <<exe, bak, children, alive>>]_vars

C15_Witness ==
    /\ rret.err = "spawn"
    /\ rpc = "idle"
    /\ bak = File(RunningBuild)
    /\ ~exe.exists
    /\ alive
    /\ children = <<>>

\* C16: no operation of the Updater puts the staged file on the executable
\* path: the only change the Updater makes to the file at <execPath> is to
\* rename it away, the file there is never what a poll cycle has staged, and
\* the process RestartAndUpdate starts is the file found at the path its
\* rename has vacated.
C16_NoPromotion ==
    /\ [](exe.exists => exe.data \in {RunningBuild} \cup Puts)
    /\ [][/\ exe' # exe =>
                (PutExecutable \/ (rpc = "idle" /\ ~exe'.exists /\ bak' = exe))
          /\ children' # children =>
                children'[Len(children')].image = exe.data]_vars

C16_Witness == rpc = "spawn" /\ ~exe.exists /\ Usable(new) /\ bak.exists

\* C20: the poll goroutine never closes its output channel: the channel is
\* open in every state, also once the loop has stopped, and no receive from
\* a stopped loop can complete.
C20_ChannelNeverClosed ==
    /\ \A l \in Loops : chanOpen[l]
    /\ \A l \in Loops : pc[l] = "stopped" => ~ENABLED Receive(l)

C20_Witness ==
    \E l \in Loops : pc[l] = "stopped" /\ reading[l] /\ sent # <<>>

====
